---------------------------- MODULE Spec2Model ----------------------------
(***************************************************************************)
(* A model of twitter_media_dl/mediadownloadclient.py: the media           *)
(* extraction functions, the streaming downloader, the URL history and    *)
(* the producer / consumer pipeline of MediaDownloadClient.                *)
(*   Spec, FairSpec   the pipeline of one client                           *)
(*   FileSpec         download_file, step by step                          *)
(*   MediaSpec        get_media, get_media_details, get_filename           *)
(*   HistorySpec      load_history and save_history on base_folder         *)
(*   RunSpec          twitter_media_dl.py: construct, run, save_history     *)
(***************************************************************************)
EXTENDS Integers, Sequences, FiniteSets, TLC

(***************************************************************************)
(* Bounds of the model.                                                    *)
(***************************************************************************)
\* queuesize given to MediaDownloadClient.__init__ (asyncio.Queue maxsize)
QueueSize == 2
\* max_tweets given to add_media_to_queue
MaxTweets == 2
\* the post source yields at most this many pages before it is exhausted
MaxPages == 2
\* a page holds at most this many posts
MaxPageLen == 1

(***************************************************************************)
(* Optional attributes.  An attribute of a peony response that may be      *)
(* missing (reading it raises AttributeError) is a set with at most one    *)
(* element.                                                                *)
(***************************************************************************)
HasAttr(o) == o # {}
Attr(o) == CHOOSE x \in o : TRUE

\* the concatenation of a list of lists
RECURSIVE Flat(_)
Flat(lists) == IF lists = <<>> THEN <<>> ELSE Head(lists) \o Flat(Tail(lists))

(***************************************************************************)
(* The posts the post source can return.  A string that the code takes     *)
(* apart or extends (a URL, a date) is a tuple of its pieces, the          *)
(* separators "/" and ":" being pieces of their own.                       *)
(***************************************************************************)
Url(host, name) == <<"https", ":", "/", "/", host, "/", name>>
Date(y, mo, d, h, mi, s) == [y |-> y, mo |-> mo, d |-> d, h |-> h, mi |-> mi, s |-> s, tz |-> "+0000"]

Mp4(bitrate, url) == [content_type |-> "video/mp4", bitrate |-> bitrate, url |-> url]
\* a playlist variant carries no bitrate; the code never reads it (the test
\* of the content type comes first)
M3u8(url) == [content_type |-> "application/x-mpegURL", bitrate |-> 0, url |-> url]
\* a variant of any content type
Variant(content_type, bitrate, url) == [content_type |-> content_type, bitrate |-> bitrate, url |-> url]
Photo(url) == [type |-> "photo", media_url_https |-> url, variants |-> <<>>]
Video(type, variants) ==
    [type |-> type, media_url_https |-> Url("pbs.twimg.com", "thumb.jpg"), variants |-> variants]

Tweet(name, date, media, rt, qt) ==
    [screen_name |-> name, created_at |-> date, extended_entities |-> media,
     retweeted_status |-> rt, quoted_status |-> qt]

\* 1: a post with one photo; 2: a repost of post 1 (the API repeats the
\* media on the repost itself); 3: a video with two mp4 variants and an m3u8
\* playlist; 4: an animated loop with no mp4 variant; 5: a post with two
\* photos; 6: a post with a photo that reposts post 3 and quotes post 5;
\* 7: an animated loop with one mp4 variant of bitrate 0 and a variant of
\* another content type with a greater bitrate; 8: a post without media.
Posts ==
    <<Tweet("Sad-istfied", Date(2021, 3, 21, 4, 8, 55),
            {<<Photo(Url("pbs.twimg.com", "ABC123.jpg"))>>}, {}, {}),
      Tweet("BBC", Date(2021, 3, 22, 10, 0, 0),
            {<<Photo(Url("pbs.twimg.com", "ABC123.jpg"))>>}, {1}, {}),
      Tweet("megateyourbagel", Date(2021, 3, 17, 2, 21, 0),
            {<<Video("video", <<Mp4(832000, Url("video.twimg.com", "lo.mp4")),
                                M3u8(Url("video.twimg.com", "pl.m3u8")),
                                Mp4(2176000, Url("video.twimg.com", "hi.mp4"))>>)>>}, {}, {}),
      Tweet("dnoodels", Date(2021, 3, 16, 21, 5, 59),
            {<<Video("animated_gif", <<M3u8(Url("video.twimg.com", "only.m3u8"))>>)>>}, {}, {}),
      Tweet("dooblebugs", Date(2021, 7, 7, 18, 18, 33),
            {<<Photo(Url("pbs.twimg.com", "E5tots.png")),
               Photo(Url("pbs.twimg.com", "E5towD.png"))>>}, {}, {}),
      Tweet("unrealrui", Date(2020, 8, 2, 15, 48, 43),
            {<<Photo(Url("pbs.twimg.com", "EebTdf.png"))>>}, {3}, {5}),
      Tweet("rabbitbrush4", Date(2020, 3, 21, 12, 26, 8),
            {<<Video("animated_gif", <<Variant("video/webm", 4000000, Url("video.twimg.com", "loop.webm")),
                                       Mp4(0, Url("video.twimg.com", "loop.mp4"))>>)>>}, {}, {}),
      Tweet("mrkipler1", Date(2021, 1, 30, 2, 6, 1), {}, {}, {}),
      \* 9 reaches 1 along two paths: through its repost 10 and its quote 11
      Tweet("twopaths", Date(2021, 4, 1, 9, 0, 0),
            {<<Photo(Url("pbs.twimg.com", "Fork01.jpg"))>>}, {10}, {11}),
      Tweet("viaquote", Date(2021, 3, 30, 9, 0, 0), {}, {}, {1}),
      Tweet("viarepost", Date(2021, 3, 31, 9, 0, 0),
            {<<Photo(Url("pbs.twimg.com", "Side02.jpg"))>>}, {1}, {}),
      \* 12 and 13 link to each other
      Tweet("roundabout", Date(2021, 5, 1, 9, 0, 0),
            {<<Photo(Url("pbs.twimg.com", "Loop03.jpg"))>>}, {13}, {}),
      Tweet("andback", Date(2021, 5, 2, 9, 0, 0), {}, {}, {12})>>

TweetIds == DOMAIN Posts

(***************************************************************************)
(* get_media: the media of a post, then of its reposted post, then of its  *)
(* quoted post, as tuples <<tweet, media, media_index>>.                   *)
(***************************************************************************)
\* as OwnMedia, counting the attachments from 1
OwnMedia_fromone(tweet) ==
    IF HasAttr(Posts[tweet].extended_entities)
    THEN LET m == Attr(Posts[tweet].extended_entities)
         IN  [i \in 1..Len(m) |-> <<tweet, m[i], i>>]
    ELSE <<>>

OwnMedia(tweet) ==
    IF HasAttr(Posts[tweet].extended_entities)
    THEN LET m == Attr(Posts[tweet].extended_entities)
         IN  [i \in 1..Len(m) |-> <<tweet, m[i], i - 1>>]
    ELSE <<>>

\* as get_media, following the links at depth max_depth too
RECURSIVE get_media_deeper(_, _, _, _)
get_media_deeper(tweet, medias, depth, max_depth) ==
    LET own == medias \o OwnMedia(tweet)
        rt  == IF depth <= max_depth /\ HasAttr(Posts[tweet].retweeted_status)
               THEN get_media_deeper(Attr(Posts[tweet].retweeted_status), own, depth + 1,
                                     max_depth)
               ELSE own
        qt  == IF depth <= max_depth /\ HasAttr(Posts[tweet].quoted_status)
               THEN get_media_deeper(Attr(Posts[tweet].quoted_status), rt, depth + 1,
                                     max_depth)
               ELSE rt
    IN  qt

\* as get_media, with a missing retweeted_status ending the call: the
\* quoted post is not looked at
RECURSIVE get_media_nocatch(_, _, _, _)
get_media_nocatch(tweet, medias, depth, max_depth) ==
    LET own == medias \o OwnMedia(tweet)
        rt  == IF depth < max_depth /\ HasAttr(Posts[tweet].retweeted_status)
               THEN get_media_nocatch(Attr(Posts[tweet].retweeted_status), own, depth + 1,
                                      max_depth)
               ELSE own
        qt  == IF /\ depth < max_depth
                  /\ HasAttr(Posts[tweet].retweeted_status)
                  /\ HasAttr(Posts[tweet].quoted_status)
               THEN get_media_nocatch(Attr(Posts[tweet].quoted_status), rt, depth + 1,
                                      max_depth)
               ELSE rt
    IN  qt

RECURSIVE get_media(_, _, _, _)
get_media(tweet, medias, depth, max_depth) ==
    LET own == medias \o OwnMedia(tweet)
        rt  == IF depth < max_depth /\ HasAttr(Posts[tweet].retweeted_status)
               THEN get_media(Attr(Posts[tweet].retweeted_status), own, depth + 1, max_depth)
               ELSE own
        qt  == IF depth < max_depth /\ HasAttr(Posts[tweet].quoted_status)
               THEN get_media(Attr(Posts[tweet].quoted_status), rt, depth + 1, max_depth)
               ELSE rt
    IN  qt

\* max_depth's default
DefaultMaxDepth == 10

\* the calls of get_media that one call makes, itself first: the post and
\* the depth of each, in the order they are made
RECURSIVE Visited(_, _, _)
Visited(tweet, depth, max_depth) ==
    LET rt == IF depth < max_depth /\ HasAttr(Posts[tweet].retweeted_status)
              THEN Visited(Attr(Posts[tweet].retweeted_status), depth + 1, max_depth)
              ELSE <<>>
        qt == IF depth < max_depth /\ HasAttr(Posts[tweet].quoted_status)
              THEN Visited(Attr(Posts[tweet].quoted_status), depth + 1, max_depth)
              ELSE <<>>
    IN  <<[tweet |-> tweet, depth |-> depth]>> \o rt \o qt

(***************************************************************************)
(* slugify.slugify on the handles of Posts.                                *)
(***************************************************************************)
Slugify(name) ==
    CASE name = "Sad-istfied" -> "sad-istfied"
      [] name = "BBC" -> "bbc"
      [] OTHER -> name

(***************************************************************************)
(* get_media_details.  max_url is a local of the whole call: it is unbound *)
(* until the first mp4 variant is seen and keeps its value from one media  *)
(* entry to the next.  Reading it unbound raises UnboundLocalError.        *)
(***************************************************************************)
\* as ScanVariants, without the test of the content type
RECURSIVE ScanVariants_anytype(_, _, _)
ScanVariants_anytype(variants, max_bitrate, max_url) ==
    IF variants = <<>> THEN <<max_bitrate, max_url>>
    ELSE LET v == Head(variants)
         IN  IF v.bitrate > max_bitrate
             THEN ScanVariants_anytype(Tail(variants), v.bitrate, {v.url})
             ELSE ScanVariants_anytype(Tail(variants), max_bitrate, max_url)

\* the variant loop of one video entry: <<max_bitrate, max_url>> after it
RECURSIVE ScanVariants(_, _, _)
ScanVariants(variants, max_bitrate, max_url) ==
    IF variants = <<>> THEN <<max_bitrate, max_url>>
    ELSE LET v == Head(variants)
         IN  IF v.content_type = "video/mp4" /\ v.bitrate > max_bitrate
             THEN ScanVariants(Tail(variants), v.bitrate, {v.url})
             ELSE ScanVariants(Tail(variants), max_bitrate, max_url)

MediaInfo(tweet, media, media_index, url) ==
    [author |-> Slugify(Posts[tweet].screen_name), date |-> Posts[tweet].created_at,
     id |-> tweet, type |-> media.type, index |-> media_index, url |-> url]

\* the loop over the <<tweet, media, index>> tuples; acc is
\* [list, max_url, raised]
RECURSIVE DetailsLoop(_, _)
DetailsLoop(medias, acc) ==
    IF medias = <<>> \/ acc.raised THEN acc
    ELSE LET tweet == Head(medias)[1]
             media == Head(medias)[2]
             index == Head(medias)[3]
         IN  IF media.type = "photo"
             THEN DetailsLoop(Tail(medias),
                      [acc EXCEPT !.list = Append(@, MediaInfo(tweet, media, index,
                                                   media.media_url_https \o <<":", "orig">>))])
             ELSE LET max_url == ScanVariants(media.variants, -1, acc.max_url)[2]
                  IN  IF max_url = {}
                      THEN [acc EXCEPT !.raised = TRUE]
                      ELSE DetailsLoop(Tail(medias),
                               [list |-> Append(acc.list, MediaInfo(tweet, media, index, Attr(max_url))),
                                max_url |-> max_url, raised |-> FALSE])

RECURSIVE TweetsLoop(_, _)
TweetsLoop(tweets, acc) ==
    IF tweets = <<>> \/ acc.raised THEN acc
    ELSE TweetsLoop(Tail(tweets),
                    DetailsLoop(get_media(Head(tweets), <<>>, 1, DefaultMaxDepth), acc))

\* [list |-> result_list, raised |-> whether the call raised instead]
get_media_details(tweets) ==
    LET r == TweetsLoop(tweets, [list |-> <<>>, max_url |-> {}, raised |-> FALSE])
    IN  [list |-> r.list, raised |-> r.raised]

(***************************************************************************)
(* get_filename.  str.split(sep)[-1] and str.split(sep)[0] on a tuple of   *)
(* pieces; strftime("%Y-%m-%d-%H%M%S") keeps the six fields of the parsed  *)
(* date and drops its zone.                                                *)
(***************************************************************************)
RECURSIVE SplitLast(_, _)
SplitLast(s, sep) ==
    IF \E i \in 1..Len(s) : s[i] = sep
    THEN SplitLast(Tail(s), sep)
    ELSE s

RECURSIVE SplitFirst(_, _)
SplitFirst(s, sep) ==
    IF s = <<>> \/ Head(s) = sep THEN <<>>
    ELSE <<Head(s)>> \o SplitFirst(Tail(s), sep)

FormatDate(d) == <<d.y, "-", d.mo, "-", d.d, "-", d.h, d.mi, d.s>>

\* as get_filename, with the index left out of a photo's name
get_filename_noindex(media_info) ==
    LET date     == FormatDate(media_info.date)
        artist   == media_info.author
        url_type == SplitFirst(SplitLast(media_info.url, "/"), ":")
        id_      == media_info.id
    IN  CASE media_info.type = "photo" ->
               <<"img", date, "_", artist, "_", id_, "_", url_type>>
          [] media_info.type = "video" ->
               <<"video", date, "_", artist, "_", id_, ".mp4">>
          [] media_info.type = "animated_gif" ->
               <<"gif", date, "_", artist, "_", id_, ".mp4">>

get_filename(media_info) ==
    LET date     == FormatDate(media_info.date)
        artist   == media_info.author
        index    == media_info.index
        url_type == SplitFirst(SplitLast(media_info.url, "/"), ":")
        id_      == media_info.id
    IN  CASE media_info.type = "photo" ->
               <<"img", date, "_", artist, "_", index, "_", id_, "_", url_type>>
          [] media_info.type = "video" ->
               <<"video", date, "_", artist, "_", id_, ".mp4">>
          [] media_info.type = "animated_gif" ->
               <<"gif", date, "_", artist, "_", id_, ".mp4">>

(***************************************************************************)
(* The pipeline of one MediaDownloadClient: add_media_to_queue (the        *)
(* producer) and download_media_from_queue (the consumer) as two tasks of  *)
(* one event loop.  A task runs from one await to the next; the model      *)
(* lets the tasks interleave at least there.  A task that raises stops;    *)
(* the other one goes on as far as the queue lets it.                      *)
(***************************************************************************)
VARIABLES
    media_queue,        \* asyncio.Queue: its entries, oldest first; {} is None
    media_urls,         \* self.media_urls
    tweet_count,        \* self.tweet_count
    dupes,              \* self.dupes
    media_count,        \* self.media_count
    pPc,                \* where add_media_to_queue stands
    pages,              \* pages the post source has yielded so far
    tweets_list,        \* the page being processed
    media_details_list, \* the records of the page not yet filtered
    cPc,                \* where download_media_from_queue stands
    media_details,      \* the record the consumer holds, {} when none
    retry_count,        \* download_file's retry_count, 0 outside a call
    dirs,               \* the directories under base_folder/tweet_source
    files,              \* the files there: path -> the chunks written
    loaded,             \* history: the URLs load_history put in media_urls
    enqueued,           \* history: every entry put in the queue, in order
    handed,             \* history: every record passed to download_file
    extracted,          \* history: how many records get_media_details has
                        \* returned to add_media_to_queue
    dl_ok               \* history: the running or last download_file call
                        \* has streamed a whole body

\* download_file called on its own (test_download_media), step by step
VARIABLES
    dPc,                \* where the call stands; "idle" outside a call
    handles,            \* the file objects that are open: path, call and turn
    received,           \* chunks of the response read in this turn
    chunk,              \* the chunk read and not yet written to both files
    outcome,            \* history: how the last turn of the call ended
    calls,              \* history: the records of the calls made, in order
    now,                \* the time since the call was made, which passes while
                        \* the call is suspended
    left_at,            \* history: the time at which the last turn was left
    returns             \* history: what each call that has ended left behind

fileVars == <<dPc, handles, received, chunk, outcome, calls, now, left_at, returns>>

\* get_media, get_media_details and get_filename called on their own
\* (test_get_media_details, test_get_filename)
VARIABLES
    mPc,                \* which of the functions have been called
    mTweets,            \* the posts given to get_media_details
    mMedias,            \* get_media's result for each of them
    mDetails,           \* get_media_details' result list, or that it raised
    mNames,             \* get_filename's result for each record of the list
    mRenames            \* the same for the records with another index

mediaVars == <<mPc, mTweets, mMedias, mDetails, mNames, mRenames>>

\* load_history and save_history on base_folder
VARIABLES
    folder,             \* the history files of base_folder: name -> text
    backups,            \* those of the *_urls_backups folders
    clock,              \* datetime.datetime.now(), in seconds
    hOp,                \* history: the last call made
    hBefore,            \* history: folder and backups before that call
    hSaved,             \* history: media_urls as the last save_history saw it
    hWritten            \* history: every file a save_history call wrote

historyVars == <<folder, backups, clock, hOp, hBefore, hSaved, hWritten>>

\* the state of the functions called on their own; the pipeline leaves it
\* alone
directVars == <<fileVars, mediaVars, historyVars>>

vars == <<media_queue, media_urls, tweet_count, dupes, media_count, pPc, pages,
          tweets_list, media_details_list, cPc, media_details, retry_count,
          dirs, files, loaded, enqueued, handed, extracted, dl_ok, directVars>>

producerVars == <<tweet_count, dupes, pPc, pages, tweets_list, media_details_list,
                  extracted>>
consumerVars == <<media_count, cPc, media_details, retry_count, dirs, files, handed, dl_ok>>

None == {}

\* every page the post source can yield: a non-empty list of posts
RECURSIVE SeqsUpTo(_, _)
SeqsUpTo(S, n) ==
    IF n = 0 THEN {<<>>}
    ELSE LET shorter == SeqsUpTo(S, n - 1)
         IN  shorter \cup {Append(q, x) : q \in shorter, x \in S}

\* the posts of the account's pages: a repost, a video and a malformed entry
PageTweets == {2, 3, 4}

Pages == SeqsUpTo(PageTweets, MaxPageLen) \ {<<>>}

\* get_media_details on each page the source can yield
PageDetails == [page \in Pages |-> get_media_details(page)]

\* every record the pages give
AllDetails ==
    UNION {{PageDetails[page].list[i] : i \in DOMAIN PageDetails[page].list} : page \in Pages}

\* get_filename on each of them
Filename == [details \in AllDetails |-> get_filename(details)]

PhotoUrl == Url("pbs.twimg.com", "ABC123.jpg") \o <<":", "orig">>

\* the histories load_history can have found
Histories == {{}, {PhotoUrl}}

\* a queue made without maxsize is never full
Full_unbounded(q) == FALSE

\* asyncio.Queue.full()
Full(q) == Len(q) >= QueueSize

\* no download_file call of its own is made
FileIdle ==
    /\ dPc = "idle"
    /\ handles = {}
    /\ received = 0
    /\ chunk = {}
    /\ outcome = "none"
    /\ calls = <<>>
    /\ now = 0
    /\ left_at = 0
    /\ returns = <<>>

\* none of the extraction functions is called on its own
MediaIdle ==
    /\ mPc = "idle"
    /\ mTweets = <<>>
    /\ mMedias = <<>>
    /\ mDetails = [list |-> <<>>, raised |-> FALSE]
    /\ mNames = <<>>
    /\ mRenames = <<>>

\* neither load_history nor save_history is looked at
HistoryIdle ==
    /\ folder = <<>>
    /\ backups = <<>>
    /\ clock = 0
    /\ hOp = "none"
    /\ hBefore = <<>>
    /\ hSaved = {}
    /\ hWritten = {}

Init ==
    /\ media_queue = <<>>
    /\ loaded \in Histories
    /\ media_urls = loaded
    /\ tweet_count = 0
    /\ dupes = 0
    /\ media_count = 0
    /\ pPc = "fetch"
    /\ pages = 0
    /\ tweets_list = <<>>
    /\ media_details_list = <<>>
    /\ cPc = "get"
    /\ media_details = None
    /\ retry_count = 0
    /\ dirs = {}
    /\ files = <<>>
    /\ enqueued = <<>>
    /\ handed = <<>>
    /\ extracted = 0
    /\ dl_ok = FALSE
    /\ FileIdle
    /\ MediaIdle
    /\ HistoryIdle

(***************************************************************************)
(* add_media_to_queue.                                                     *)
(***************************************************************************)
\* asyncio.Queue.put_nowait, with the history of what was put
Put(item) ==
    /\ media_queue' = Append(media_queue, item)
    /\ enqueued' = Append(enqueued, item)

\* "async for tweets_list in responses" yields a page, and
\* get_media_details is called on it; an error it raises ends the task
ProducerFetch ==
    /\ pPc = "fetch"
    /\ pages < MaxPages
    /\ \E page \in Pages :
         LET details == PageDetails[page]
         IN  /\ pages' = pages + 1
             /\ tweets_list' = page
             /\ IF details.raised
                THEN /\ pPc' = "raised"
                     /\ UNCHANGED <<media_details_list, extracted>>
                ELSE /\ pPc' = "filter"
                     /\ media_details_list' = details.list
                     /\ extracted' = extracted + Len(details.list)
    /\ UNCHANGED <<media_queue, media_urls, tweet_count, dupes, loaded, enqueued>>
    /\ UNCHANGED <<consumerVars, directVars>>

\* the post source is exhausted: the loop ends
ProducerExhausted ==
    /\ pPc = "fetch"
    /\ pPc' = "sentinel"
    /\ UNCHANGED <<media_queue, media_urls, tweet_count, dupes, pages, tweets_list,
                   media_details_list, loaded, enqueued>>
    /\ UNCHANGED extracted
    /\ UNCHANGED <<consumerVars, directVars>>

\* as ProducerFilter, with the URL of a record added to media_urls when the
\* record is put
ProducerFilter_addsurl ==
    /\ pPc = "filter"
    /\ media_details_list # <<>>
    /\ LET details == Head(media_details_list)
       IN  IF details.url \in media_urls
           THEN /\ dupes' = dupes + 1
                /\ media_details_list' = Tail(media_details_list)
                /\ UNCHANGED <<pPc, media_queue, enqueued, media_urls>>
           ELSE IF Full(media_queue)
           THEN /\ pPc' = "put"
                /\ UNCHANGED <<dupes, media_details_list, media_queue, enqueued, media_urls>>
           ELSE /\ Put({details})
                /\ media_urls' = media_urls \cup {details.url}
                /\ media_details_list' = Tail(media_details_list)
                /\ UNCHANGED <<pPc, dupes>>
    /\ UNCHANGED <<tweet_count, pages, tweets_list, loaded>>
    /\ UNCHANGED extracted
    /\ UNCHANGED <<consumerVars, directVars>>

\* as ProducerFilter, without the "continue" after counting a duplicate
ProducerFilter_nocontinue ==
    /\ pPc = "filter"
    /\ media_details_list # <<>>
    /\ LET details == Head(media_details_list)
       IN  /\ dupes' = IF details.url \in media_urls THEN dupes + 1 ELSE dupes
           /\ IF Full(media_queue)
              THEN /\ pPc' = "put"
                   /\ UNCHANGED <<media_details_list, media_queue, enqueued>>
              ELSE /\ Put({details})
                   /\ media_details_list' = Tail(media_details_list)
                   /\ UNCHANGED pPc
    /\ UNCHANGED <<media_urls, tweet_count, pages, tweets_list, loaded>>
    /\ UNCHANGED extracted
    /\ UNCHANGED <<consumerVars, directVars>>

\* one turn of "for media_details in media_details_list": a URL of
\* media_urls is counted and skipped, any other record is put in the queue,
\* at once when there is room, and else the task waits in put()
ProducerFilter ==
    /\ pPc = "filter"
    /\ media_details_list # <<>>
    /\ LET details == Head(media_details_list)
       IN  IF details.url \in media_urls
           THEN /\ dupes' = dupes + 1
                /\ media_details_list' = Tail(media_details_list)
                /\ UNCHANGED <<pPc, media_queue, enqueued>>
           ELSE IF Full(media_queue)
           THEN /\ pPc' = "put"
                /\ UNCHANGED <<dupes, media_details_list, media_queue, enqueued>>
           ELSE /\ Put({details})
                /\ media_details_list' = Tail(media_details_list)
                /\ UNCHANGED <<pPc, dupes>>
    /\ UNCHANGED <<media_urls, tweet_count, pages, tweets_list, loaded>>
    /\ UNCHANGED extracted
    /\ UNCHANGED <<consumerVars, directVars>>

\* put() resumes once the queue has room
ProducerPut ==
    /\ pPc = "put"
    /\ ~Full(media_queue)
    /\ Put({Head(media_details_list)})
    /\ media_details_list' = Tail(media_details_list)
    /\ pPc' = "filter"
    /\ UNCHANGED <<media_urls, tweet_count, dupes, pages, tweets_list, loaded>>
    /\ UNCHANGED extracted
    /\ UNCHANGED <<consumerVars, directVars>>

\* as ProducerPageDone, with a None put before the break as well
ProducerPageDone_sentinel ==
    /\ pPc = "filter"
    /\ media_details_list = <<>>
    /\ tweet_count' = tweet_count + Len(tweets_list)
    /\ IF tweet_count' >= MaxTweets /\ ~Full(media_queue)
       THEN /\ Put(None)
            /\ pPc' = "sentinel"
       ELSE /\ pPc' = IF tweet_count' >= MaxTweets THEN "sentinel" ELSE "fetch"
            /\ UNCHANGED <<media_queue, enqueued>>
    /\ UNCHANGED <<media_urls, dupes, pages, tweets_list, media_details_list, loaded>>
    /\ UNCHANGED extracted
    /\ UNCHANGED <<consumerVars, directVars>>

\* as ProducerPageDone, without the break at max_tweets
ProducerPageDone_nobreak ==
    /\ pPc = "filter"
    /\ media_details_list = <<>>
    /\ tweet_count' = tweet_count + Len(tweets_list)
    /\ pPc' = "fetch"
    /\ UNCHANGED <<media_queue, media_urls, dupes, pages, tweets_list,
                   media_details_list, loaded, enqueued>>
    /\ UNCHANGED extracted
    /\ UNCHANGED <<consumerVars, directVars>>

\* after the page's records: count its posts, and stop at max_tweets
ProducerPageDone ==
    /\ pPc = "filter"
    /\ media_details_list = <<>>
    /\ tweet_count' = tweet_count + Len(tweets_list)
    /\ pPc' = IF tweet_count' >= MaxTweets THEN "sentinel" ELSE "fetch"
    /\ UNCHANGED <<media_queue, media_urls, dupes, pages, tweets_list,
                   media_details_list, loaded, enqueued>>
    /\ UNCHANGED extracted
    /\ UNCHANGED <<consumerVars, directVars>>

\* "await self.media_queue.put(None)"
ProducerSentinel ==
    /\ pPc = "sentinel"
    /\ ~Full(media_queue)
    /\ Put(None)
    /\ pPc' = "done"
    /\ UNCHANGED <<media_urls, tweet_count, dupes, pages, tweets_list,
                   media_details_list, loaded>>
    /\ UNCHANGED extracted
    /\ UNCHANGED <<consumerVars, directVars>>

Producer ==
    \/ ProducerFetch
    \/ ProducerExhausted
    \/ ProducerFilter
    \/ ProducerPut
    \/ ProducerPageDone
    \/ ProducerSentinel

(***************************************************************************)
(* download_file, as the consumer runs it.  One action is one turn of the  *)
(* "while retry_count <= 5" loop, by the way the turn ends.                *)
(***************************************************************************)
\* the last retry_count value for which the loop body is entered
MaxRetry == 5

\* the response body streams in this many chunks
BodyChunks == 1

\* the chunks the server sends for a URL
Body(url) == [i \in 1..BodyChunks |-> <<url, i>>]

all_folder(details) == <<"__all__", Filename[details]>>
artist_folder(details) == <<details.author, Filename[details]>>

\* a loop test that lets one more turn through
LoopTest_offbyone(rc) == rc <= MaxRetry + 1

\* "while retry_count <= 5"
LoopTest(rc) == rc <= MaxRetry

\* open(path, "ab"): a file that is there keeps what it holds
Truncated_append(fs, path) == IF path \in DOMAIN fs THEN fs ELSE (path :> <<>>) @@ fs

\* open(path, "wb") on an existing directory: the file is there and empty
Truncated(fs, path) == (path :> <<>>) @@ fs

\* both files after "chunks" were written to each handle
Written(fs, details, chunks) ==
    (all_folder(details) :> chunks) @@ (artist_folder(details) :> chunks) @@ fs

DirsExist(details) == {"__all__", details.author} \subseteq dirs

InLoop ==
    /\ cPc = "download"
    /\ LoopTest(retry_count)

\* as ConsumerRecord, with media_urls set to the URL of the record alone
ConsumerRecord_replace ==
    /\ retry_count' = 0
    /\ media_urls' = {Attr(media_details).url}
    /\ media_count' = media_count + 1
    /\ cPc' = "get"

\* download_file returns, and what follows in download_media_from_queue
ConsumerRecord ==
    /\ retry_count' = 0
    /\ media_urls' = media_urls \cup {Attr(media_details).url}
    /\ media_count' = media_count + 1
    /\ cPc' = "get"

\* a turn that ends in an except clause or in a response that is not ok:
\* back to the loop test (asyncio.sleep(10) is called but not awaited, so
\* nothing runs in between)
NextTurn ==
    /\ retry_count' = retry_count + 1
    /\ UNCHANGED <<media_urls, media_count, cPc, dl_ok>>

\* open() raises FileNotFoundError: __all__ is missing, or it exists, its
\* file is created, and the author's directory is missing; both directories
\* are then made
AttemptFileNotFound ==
    /\ InLoop
    /\ ~DirsExist(Attr(media_details))
    /\ files' = IF "__all__" \in dirs
                THEN Truncated(files, all_folder(Attr(media_details)))
                ELSE files
    /\ dirs' = dirs \cup {"__all__", Attr(media_details).author}
    /\ NextTurn
    /\ UNCHANGED <<media_queue, media_details, loaded, enqueued, handed>>
    /\ UNCHANGED <<producerVars, directVars>>

\* response.ok: every chunk is written to both files, then break; the call
\* returns
AttemptOk ==
    /\ InLoop
    /\ DirsExist(Attr(media_details))
    /\ files' = Written(files, Attr(media_details), Body(Attr(media_details).url))
    /\ dl_ok' = TRUE
    /\ ConsumerRecord
    /\ UNCHANGED <<media_queue, media_details, dirs, loaded, enqueued, handed>>
    /\ UNCHANGED <<producerVars, directVars>>

\* the response is not ok: nothing is written and nothing is raised
AttemptNotOk ==
    /\ InLoop
    /\ DirsExist(Attr(media_details))
    /\ files' = Written(files, Attr(media_details), <<>>)
    /\ NextTurn
    /\ UNCHANGED <<media_queue, media_details, dirs, loaded, enqueued, handed>>
    /\ UNCHANGED <<producerVars, directVars>>

\* an exception raised after k chunks were written
Interrupted(k) ==
    /\ InLoop
    /\ DirsExist(Attr(media_details))
    /\ files' = Written(files, Attr(media_details),
                        SubSeq(Body(Attr(media_details).url), 1, k))
    /\ UNCHANGED <<media_queue, media_details, dirs, loaded, enqueued, handed>>
    /\ UNCHANGED <<producerVars, directVars>>

\* asyncio.TimeoutError, at any point of the transfer
AttemptTimeout ==
    /\ \E k \in 0..BodyChunks : Interrupted(k)
    /\ NextTurn

\* ClientConnectorError: no connection, so no response
AttemptConnectorError ==
    /\ Interrupted(0)
    /\ NextTurn

\* ClientPayloadError, while the body is read
AttemptPayloadError ==
    /\ \E k \in 0..BodyChunks : Interrupted(k)
    /\ NextTurn

\* any other exception leaves download_file and the consumer task
AttemptFatal ==
    /\ \E k \in 0..BodyChunks : Interrupted(k)
    /\ retry_count' = 0
    /\ cPc' = "raised"
    /\ UNCHANGED <<media_urls, media_count, dl_ok>>

\* as DownloadExhausted, with the consumer giving up after the failure
DownloadExhausted_stop ==
    /\ cPc = "download"
    /\ ~LoopTest(retry_count)
    /\ cPc' = "done"
    /\ UNCHANGED <<media_queue, media_urls, media_count, media_details, retry_count,
                   dirs, files, loaded, enqueued, handed, dl_ok>>
    /\ UNCHANGED <<producerVars, directVars>>

\* the loop test fails: the call returns
DownloadExhausted ==
    /\ cPc = "download"
    /\ ~LoopTest(retry_count)
    /\ ConsumerRecord
    /\ UNCHANGED <<media_queue, media_details, dirs, files, loaded,
                   enqueued, handed, dl_ok>>
    /\ UNCHANGED <<producerVars, directVars>>

(***************************************************************************)
(* download_media_from_queue.                                              *)
(***************************************************************************)
\* a queue that hands out its newest entry
Get_lifo(q) == <<q[Len(q)], SubSeq(q, 1, Len(q) - 1)>>

\* asyncio.Queue.get_nowait: <<the entry taken, the entries left>>
Get(q) == <<Head(q), Tail(q)>>

\* "media_details = await self.media_queue.get()": None ends the task, a
\* record goes to download_file
ConsumerGet ==
    /\ cPc = "get"
    /\ media_queue # <<>>
    /\ LET got == Get(media_queue)
       IN  /\ media_queue' = got[2]
           /\ IF got[1] = None
              THEN /\ cPc' = "done"
                   /\ UNCHANGED <<media_details, retry_count, handed, dl_ok>>
              ELSE /\ cPc' = "download"
                   /\ media_details' = got[1]
                   /\ retry_count' = 0
                   /\ handed' = Append(handed, Attr(got[1]))
                   /\ dl_ok' = FALSE
    /\ UNCHANGED <<media_urls, media_count, dirs, files, loaded, enqueued>>
    /\ UNCHANGED <<producerVars, directVars>>

Consumer ==
    \/ ConsumerGet
    \/ AttemptFileNotFound
    \/ AttemptOk
    \/ AttemptNotOk
    \/ AttemptTimeout
    \/ AttemptConnectorError
    \/ AttemptPayloadError
    \/ AttemptFatal
    \/ DownloadExhausted

Next == Producer \/ Consumer

Spec == Init /\ [][Next]_vars

\* the event loop runs every task that can run
FairSpec == Spec /\ WF_vars(Producer) /\ WF_vars(Consumer)

(***************************************************************************)
(* download_file called on its own, as test_download_media does, one       *)
(* action per step of the call.  Nothing else runs: the only task is the   *)
(* caller's.                                                               *)
(***************************************************************************)
\* download_file is called at most this many times
MaxCalls == 2

\* the time runs up to this
MaxTime == 1

\* the client's variables when no task of it runs
pipelineVars == <<media_queue, media_urls, tweet_count, dupes, media_count, pPc, pages,
                  tweets_list, media_details_list, cPc, loaded, enqueued, handed,
                  extracted>>

\* the client as constructed, without a history
Constructed ==
    /\ media_queue = <<>>
    /\ loaded = {}
    /\ media_urls = {}
    /\ tweet_count = 0
    /\ dupes = 0
    /\ media_count = 0
    /\ pPc = "fetch"
    /\ pages = 0
    /\ tweets_list = <<>>
    /\ media_details_list = <<>>
    /\ cPc = "get"
    /\ enqueued = <<>>
    /\ handed = <<>>
    /\ extracted = 0

\* base_folder is empty, or holds the __all__ directory of an earlier run
FileInit ==
    /\ Constructed
    /\ media_details = None
    /\ retry_count = 0
    /\ dirs \in {{}, {"__all__"}}
    /\ files = <<>>
    /\ dl_ok = FALSE
    /\ FileIdle
    /\ MediaIdle
    /\ HistoryIdle

\* download_file(filename, media_details, ...) is entered: retry_count = 0
DownloadCall ==
    /\ dPc \in {"idle", "returned", "raised"}
    /\ Len(calls) < MaxCalls
    /\ \E details \in AllDetails :
         /\ media_details' = {details}
         /\ calls' = Append(calls, details)
    /\ retry_count' = 0
    /\ dPc' = "test"
    /\ outcome' = "none"
    /\ dl_ok' = FALSE
    /\ UNCHANGED <<dirs, files, handles, received, chunk>>
    /\ now' = 0
    /\ left_at' = 0
    /\ UNCHANGED returns
    /\ UNCHANGED <<pipelineVars, mediaVars, historyVars>>

\* the file object open(path, "wb") gives in the turn retry_count counts
Handle(path, turn) == [path |-> path, call |-> Len(calls), turn |-> turn]

\* of the file objects of the turn that runs, base_file alone
OfTurn_base ==
    {h \in handles : h.call = Len(calls) /\ h.turn = retry_count /\ h.path[1] = "__all__"}

\* the file objects of the turn that runs, which its with statement closes
OfTurn == {h \in handles : h.call = Len(calls) /\ h.turn = retry_count}

\* the loop test passes, retry_count += 1, and both files are opened "wb"
TurnOpen ==
    /\ dPc = "test"
    /\ LoopTest(retry_count)
    /\ DirsExist(Attr(media_details))
    /\ retry_count' = retry_count + 1
    /\ files' = Truncated(Truncated(files, all_folder(Attr(media_details))),
                        artist_folder(Attr(media_details)))
    /\ handles' = handles \cup {Handle(all_folder(Attr(media_details)), retry_count + 1),
                               Handle(artist_folder(Attr(media_details)), retry_count + 1)}
    /\ dPc' = "opened"
    /\ UNCHANGED <<media_details, dirs, dl_ok, received, chunk, outcome, calls>>
    /\ UNCHANGED <<now, left_at, returns>>
    /\ UNCHANGED <<pipelineVars, mediaVars, historyVars>>

\* the loop test passes, retry_count += 1, and an open() raises
\* FileNotFoundError: the file object of __all__, if it was opened, is
\* closed by the with statement, and both directories are made
TurnFileNotFound ==
    /\ dPc = "test"
    /\ LoopTest(retry_count)
    /\ ~DirsExist(Attr(media_details))
    /\ retry_count' = retry_count + 1
    /\ files' = IF "__all__" \in dirs
                THEN Truncated(files, all_folder(Attr(media_details)))
                ELSE files
    /\ dirs' = dirs \cup {"__all__", Attr(media_details).author}
    /\ outcome' = "FileNotFoundError"
    /\ UNCHANGED <<media_details, dl_ok, dPc, handles, received, chunk, calls>>
    /\ left_at' = now
    /\ UNCHANGED <<now, returns>>
    /\ UNCHANGED <<pipelineVars, mediaVars, historyVars>>

\* session.get gives a response that is ok
ResponseOk ==
    /\ dPc = "opened"
    /\ dPc' = "stream"
    /\ received' = 0
    /\ UNCHANGED <<media_details, retry_count, dirs, files, dl_ok, handles, chunk,
                   outcome, calls>>
    /\ UNCHANGED <<now, left_at, returns>>
    /\ UNCHANGED <<pipelineVars, mediaVars, historyVars>>

\* the turn is left: both with statements close, back to the loop test
TurnEnds(how) ==
    /\ handles' = handles \ OfTurn
    /\ received' = 0
    /\ chunk' = {}
    /\ outcome' = how
    /\ dPc' = "test"
    /\ UNCHANGED <<media_details, retry_count, dirs, files, dl_ok, calls>>
    /\ left_at' = now
    /\ UNCHANGED <<now, returns>>
    /\ UNCHANGED <<pipelineVars, mediaVars, historyVars>>

\* session.get gives a response that is not ok: the body of the "if" is
\* skipped, nothing is raised
ResponseNotOk ==
    /\ dPc = "opened"
    /\ TurnEnds("not ok")

\* "async for chunk in response.content.iter_any()": the next chunk
ReadChunk ==
    /\ dPc = "stream"
    /\ received < BodyChunks
    /\ received' = received + 1
    /\ chunk' = {Body(Attr(media_details).url)[received + 1]}
    /\ dPc' = "write_base"
    /\ UNCHANGED <<media_details, retry_count, dirs, files, dl_ok, handles, outcome, calls>>
    /\ UNCHANGED <<now, left_at, returns>>
    /\ UNCHANGED <<pipelineVars, mediaVars, historyVars>>

\* file.write(chunk) on an open file
Write(fs, path) == [fs EXCEPT ![path] = Append(@, Attr(chunk))]

\* base_file.write(chunk)
WriteBase ==
    /\ dPc = "write_base"
    /\ files' = Write(files, all_folder(Attr(media_details)))
    /\ dPc' = "write_artist"
    /\ UNCHANGED <<media_details, retry_count, dirs, dl_ok, handles, received, chunk,
                   outcome, calls>>
    /\ UNCHANGED <<now, left_at, returns>>
    /\ UNCHANGED <<pipelineVars, mediaVars, historyVars>>

\* as WriteArtist, with the chunk written to base_file a second time
WriteArtist_base ==
    /\ dPc = "write_artist"
    /\ files' = Write(files, all_folder(Attr(media_details)))
    /\ chunk' = {}
    /\ dPc' = "stream"
    /\ UNCHANGED <<media_details, retry_count, dirs, dl_ok, handles, received,
                   outcome, calls>>
    /\ UNCHANGED <<now, left_at, returns>>
    /\ UNCHANGED <<pipelineVars, mediaVars, historyVars>>

\* artist_file.write(chunk)
WriteArtist ==
    /\ dPc = "write_artist"
    /\ files' = Write(files, artist_folder(Attr(media_details)))
    /\ chunk' = {}
    /\ dPc' = "stream"
    /\ UNCHANGED <<media_details, retry_count, dirs, dl_ok, handles, received,
                   outcome, calls>>
    /\ UNCHANGED <<now, left_at, returns>>
    /\ UNCHANGED <<pipelineVars, mediaVars, historyVars>>

\* the body has ended: break, the with statements close, the call returns
StreamEnd ==
    /\ dPc = "stream"
    /\ received = BodyChunks
    /\ handles' = handles \ OfTurn
    /\ dl_ok' = TRUE
    /\ outcome' = "ok"
    /\ dPc' = "returned"
    /\ UNCHANGED <<media_details, retry_count, dirs, files, received, chunk, calls>>
    /\ left_at' = now
    /\ returns' = Append(returns, [ok |-> TRUE, files |-> files])
    /\ UNCHANGED now
    /\ UNCHANGED <<pipelineVars, mediaVars, historyVars>>

\* asyncio.TimeoutError (timeout=600), waiting for the response or a chunk
TurnTimeout ==
    /\ dPc \in {"opened", "stream"}
    /\ TurnEnds("TimeoutError")

\* ClientConnectorError: the connection cannot be made
TurnConnectorError ==
    /\ dPc = "opened"
    /\ TurnEnds("ClientConnectorError")

\* ClientPayloadError: the body breaks off or is malformed
TurnPayloadError ==
    /\ dPc = "stream"
    /\ TurnEnds("ClientPayloadError")

\* any other exception (no except clause for it): the with statements
\* close and it leaves download_file
TurnFatal ==
    /\ dPc \in {"opened", "stream"}
    /\ handles' = handles \ OfTurn
    /\ received' = 0
    /\ chunk' = {}
    /\ outcome' = "other"
    /\ dPc' = "raised"
    /\ UNCHANGED <<media_details, retry_count, dirs, files, dl_ok, calls>>
    /\ left_at' = now
    /\ returns' = Append(returns, [ok |-> dl_ok, files |-> files])
    /\ UNCHANGED now
    /\ UNCHANGED <<pipelineVars, mediaVars, historyVars>>

\* the call is suspended at an await (session.get, the next chunk) and time
\* passes; no other step of download_file gives the event loop the control
TimePasses ==
    /\ dPc \in {"opened", "stream"}
    /\ now < MaxTime
    /\ now' = now + 1
    /\ UNCHANGED <<media_details, retry_count, dirs, files, dl_ok, dPc, handles, received,
                   chunk, outcome, calls, left_at, returns>>
    /\ UNCHANGED <<pipelineVars, mediaVars, historyVars>>

\* the loop test fails: "if retry_count > 5: pass", and the call returns
DownloadReturn ==
    /\ dPc = "test"
    /\ ~LoopTest(retry_count)
    /\ dPc' = "returned"
    /\ UNCHANGED <<media_details, retry_count, dirs, files, dl_ok, handles, received,
                   chunk, outcome, calls>>
    /\ returns' = Append(returns, [ok |-> dl_ok, files |-> files])
    /\ UNCHANGED <<now, left_at>>
    /\ UNCHANGED <<pipelineVars, mediaVars, historyVars>>

FileNext ==
    \/ DownloadCall
    \/ TurnOpen
    \/ TurnFileNotFound
    \/ ResponseOk
    \/ ResponseNotOk
    \/ ReadChunk
    \/ WriteBase
    \/ WriteArtist
    \/ StreamEnd
    \/ TurnTimeout
    \/ TurnConnectorError
    \/ TurnPayloadError
    \/ TurnFatal
    \/ TimePasses
    \/ DownloadReturn

FileSpec == FileInit /\ [][FileNext]_vars

(***************************************************************************)
(* get_media, get_media_details and get_filename called on their own on a  *)
(* list of posts, as test_get_media_details and test_get_filename do.      *)
(***************************************************************************)
\* the list given to get_media_details holds at most this many posts
MaxListLen == 2

\* a media index other than the entry's own can be one of 0..MaxIndex
MaxIndex == 2

MediaInit ==
    /\ Constructed
    /\ media_details = None
    /\ retry_count = 0
    /\ dirs = {}
    /\ files = <<>>
    /\ dl_ok = FALSE
    /\ FileIdle
    /\ HistoryIdle
    /\ mPc = "input"
    /\ mTweets \in SeqsUpTo(TweetIds, MaxListLen)
    /\ mMedias = <<>>
    /\ mDetails = [list |-> <<>>, raised |-> FALSE]
    /\ mNames = <<>>
    /\ mRenames = <<>>

\* "medias = get_media(base_tweet)" for each post of the list
CallGetMedia ==
    /\ mPc = "input"
    /\ mMedias' = [i \in DOMAIN mTweets |-> get_media(mTweets[i], <<>>, 1, DefaultMaxDepth)]
    /\ mPc' = "media"
    /\ UNCHANGED <<mTweets, mDetails, mNames, mRenames>>
    /\ UNCHANGED <<pipelineVars, media_details, retry_count, dirs, files, dl_ok, fileVars,
                   historyVars>>

\* get_media_details(tweets)
CallGetMediaDetails ==
    /\ mPc = "media"
    /\ mDetails' = get_media_details(mTweets)
    /\ mPc' = "details"
    /\ UNCHANGED <<mTweets, mMedias, mNames, mRenames>>
    /\ UNCHANGED <<pipelineVars, media_details, retry_count, dirs, files, dl_ok, fileVars,
                   historyVars>>

\* get_filename(info) for each record of the result, and for each record
\* with its index set to index
CallGetFilename ==
    /\ mPc = "details"
    /\ ~mDetails.raised
    /\ mNames' = [i \in DOMAIN mDetails.list |->
                   [info |-> mDetails.list[i], filename |-> get_filename(mDetails.list[i])]]
    /\ \E index \in 0..MaxIndex :
          mRenames' = [i \in DOMAIN mDetails.list |->
                        LET info == [mDetails.list[i] EXCEPT !.index = index]
                        IN  [info |-> info, filename |-> get_filename(info)]]
    /\ mPc' = "named"
    /\ UNCHANGED <<mTweets, mMedias, mDetails>>
    /\ UNCHANGED <<pipelineVars, media_details, retry_count, dirs, files, dl_ok, fileVars,
                   historyVars>>

MediaNext ==
    \/ CallGetMedia
    \/ CallGetMediaDetails
    \/ CallGetFilename

MediaSpec == MediaInit /\ [][MediaNext]_vars

(***************************************************************************)
(* load_history and save_history of a LikesDownloadClient on base_folder,  *)
(* over several runs of the program: a client is made (which loads the     *)
(* history), URLs are added, the history is saved.  A file name is the     *)
(* tuple of its pieces; a file is the sequence of the pieces written to    *)
(* it, the line ends among them.                                           *)
(***************************************************************************)
\* the clock goes up to this second
MaxClock == 2

\* LikesDownloadClient.__init__
tweet_source == "likes"

\* f"{source}_urls-{current_time}.txt"
HistoryName(source, time) == <<source, "_urls", "-", time, ".txt">>

\* as LoadGlob, for the glob "*_urls*.txt"
LoadGlob_anysource(dir) ==
    {name \in DOMAIN dir :
        /\ name[2] = "_urls"
        /\ name[Len(name)] = ".txt"}

\* glob "{tweet_source}_urls*.txt" of load_history: the names it matches
LoadGlob(dir) ==
    {name \in DOMAIN dir :
        /\ name[1] = tweet_source
        /\ name[2] = "_urls"
        /\ name[Len(name)] = ".txt"}

\* as SaveGlob, for a glob that matches no file
SaveGlob_none(dir) == {}

\* glob "{tweet_source}_urls-*.txt" of save_history
SaveGlob(dir) ==
    {name \in DOMAIN dir :
        /\ name[1] = tweet_source
        /\ name[2] = "_urls"
        /\ name[3] = "-"
        /\ name[Len(name)] = ".txt"}

\* as Line, without the line end
Line_noend(url) == url

\* url + "\n"
Line(url) == Append(url, "\n")

\* what "for url in order: file.write(url + "\n")" leaves in the file
WriteUrls(order) == Flat([i \in DOMAIN order |-> Line(order[i])])

\* file.readlines(): the lines, each with its line end
RECURSIVE ReadLines(_)
ReadLines(text) ==
    IF text = <<>> THEN <<>>
    ELSE LET ends == {i \in DOMAIN text : text[i] = "\n"}
             k    == IF ends = {} THEN Len(text)
                     ELSE CHOOSE i \in ends : \A j \in ends : i <= j
         IN  <<SubSeq(text, 1, k)>> \o ReadLines(SubSeq(text, k + 1, Len(text)))

\* str.strip() on a line
RECURSIVE Strip(_)
Strip(line) ==
    IF line # <<>> /\ line[Len(line)] \in {"\n", " "} THEN Strip(SubSeq(line, 1, Len(line) - 1))
    ELSE IF line # <<>> /\ Head(line) \in {"\n", " "} THEN Strip(Tail(line))
    ELSE line

\* the URLs a run can have downloaded
VideoUrl == Url("video.twimg.com", "hi.mp4")
Urls == {PhotoUrl, VideoUrl}

\* the orders "for url in self.media_urls" can take a set in
Orders(urls) ==
    {order \in SeqsUpTo(urls, Cardinality(urls)) :
        /\ Len(order) = Cardinality(urls)
        /\ \A i, j \in DOMAIN order : i # j => order[i] # order[j]}

\* the history files earlier runs can have left in base_folder
OldFiles ==
    (HistoryName("likes", 0) :> WriteUrls(<<PhotoUrl>>))
    @@ (HistoryName("likes", 1) :> WriteUrls(<<VideoUrl, PhotoUrl>>))
    @@ (HistoryName("timeline", 0) :> WriteUrls(<<VideoUrl>>))

\* a function without some of its arguments
Restrict(f, names) == [name \in names |-> f[name]]

HistoryInit ==
    /\ Constructed
    /\ media_details = None
    /\ retry_count = 0
    /\ dirs = {}
    /\ files = <<>>
    /\ dl_ok = FALSE
    /\ FileIdle
    /\ MediaIdle
    /\ \E names \in SUBSET DOMAIN OldFiles : folder = Restrict(OldFiles, names)
    /\ backups = <<>>
    /\ clock = 1
    /\ hOp = "none"
    /\ hBefore = <<>>
    /\ hSaved = {}
    /\ hWritten = {}

\* the client's variables load_history and save_history leave alone
taskVars == <<media_queue, tweet_count, dupes, media_count, pPc, pages, tweets_list,
              media_details_list, cPc, enqueued, handed, extracted>>

\* "self.media_urls.update(line.strip() for line in file.readlines())"
ReadUrls(urls, text) ==
    LET lines == ReadLines(text)
    IN  urls \cup {Strip(lines[i]) : i \in DOMAIN lines}

\* MediaDownloadClient.__init__: "self.media_urls = set()", then
\* load_history(): glob lists the matching files in an order of its own and
\* the last one listed is read; with none listed, IndexError is caught
Construct ==
    /\ IF LoadGlob(folder) = {}
       THEN media_urls' = {}
       ELSE \E logfile \in LoadGlob(folder) :
               media_urls' = ReadUrls({}, folder[logfile])
    /\ loaded' = media_urls'
    /\ hOp' = IF hOp = "save" THEN "save, load" ELSE "load"
    /\ hBefore' = <<folder, backups>>
    /\ UNCHANGED <<folder, backups, clock, hSaved, hWritten>>
    /\ UNCHANGED <<taskVars, media_details, retry_count, dirs, files, dl_ok, fileVars,
                   mediaVars>>

\* a run adds a URL to media_urls
AddUrl ==
    /\ \E url \in Urls \ media_urls : media_urls' = media_urls \cup {url}
    /\ hOp' = "add"
    /\ UNCHANGED <<loaded, folder, backups, clock, hBefore, hSaved, hWritten>>
    /\ UNCHANGED <<taskVars, media_details, retry_count, dirs, files, dl_ok, fileVars,
                   mediaVars>>

\* a second passes
Tick ==
    /\ clock < MaxClock
    /\ clock' = clock + 1
    /\ hOp' = "tick"
    /\ UNCHANGED <<media_urls, loaded, folder, backups, hBefore, hSaved, hWritten>>
    /\ UNCHANGED <<taskVars, media_details, retry_count, dirs, files, dl_ok, fileVars,
                   mediaVars>>

\* save_history: every file the glob matches is renamed into the backups
\* folder under its base name (os.rename replaces a file of that name),
\* then the URLs are written, one per line, to the file named by the clock
SaveHistory ==
    /\ LET moved    == SaveGlob(folder)
           kept     == Restrict(folder, DOMAIN folder \ moved)
           new_filename == HistoryName(tweet_source, clock)
       IN  /\ backups' = Restrict(folder, moved) @@ backups
           /\ \E order \in Orders(media_urls) :
                 /\ folder' = (new_filename :> WriteUrls(order)) @@ kept
                 /\ hWritten' = hWritten \cup {[name |-> new_filename,
                                                text |-> WriteUrls(order)]}
    /\ hOp' = "save"
    /\ hBefore' = <<folder, backups>>
    /\ hSaved' = media_urls
    /\ UNCHANGED <<media_urls, loaded, clock>>
    /\ UNCHANGED <<taskVars, media_details, retry_count, dirs, files, dl_ok, fileVars,
                   mediaVars>>

HistoryNext ==
    \/ Construct
    \/ AddUrl
    \/ Tick
    \/ SaveHistory

HistorySpec == HistoryInit /\ [][HistoryNext]_vars

(***************************************************************************)
(* twitter_media_dl.py for one client: the client is constructed, which    *)
(* loads the history; run() runs the two tasks; and the finally clause     *)
(* calls save_history.                                                     *)
(***************************************************************************)
\* base_folder as the script finds it: without a history file, or with the
\* one an earlier run for this source left
RunInit ==
    /\ Constructed
    /\ media_details = None
    /\ retry_count = 0
    /\ dirs = {}
    /\ files = <<>>
    /\ dl_ok = FALSE
    /\ FileIdle
    /\ MediaIdle
    /\ \E names \in {{}, {HistoryName(tweet_source, 0)}} :
          folder = Restrict(OldFiles, names)
    /\ backups = <<>>
    /\ clock = 1
    /\ hOp = "none"
    /\ hBefore = <<>>
    /\ hSaved = {}
    /\ hWritten = {}

\* "likes_client = LikesDownloadClient(TWITTER_ID, **kwargs)"
RunConstruct ==
    /\ hOp = "none"
    /\ Construct

\* "likes_client.run()": a step of one of the two tasks
RunTask ==
    /\ hOp = "load"
    /\ Next

\* run() is over: no task can take a step any more.  Each task has ended,
\* by its return or by an exception, or waits for the other (the producer in
\* put() on a full queue, the consumer in get() on an empty one) until the
\* run is interrupted
RunOver ==
    /\ \/ pPc \in {"done", "raised"}
       \/ pPc \in {"put", "sentinel"} /\ Full(media_queue)
    /\ \/ cPc \in {"done", "raised"}
       \/ cPc = "get" /\ media_queue = <<>>

\* "finally: likes_client.save_history()"
RunSave ==
    /\ hOp = "load"
    /\ RunOver
    /\ SaveHistory

RunNext ==
    \/ RunConstruct
    \/ RunTask
    \/ RunSave

RunSpec == RunInit /\ [][RunNext]_vars

(***************************************************************************)
(* The claims.                                                             *)
(***************************************************************************)
IsRecord(item) == item # None
RecordsOf(items) == SelectSeq(items, IsRecord)

\* C1: the queue never holds more than QueueSize entries: a put on a queue
\* that holds QueueSize entries does not complete (it would leave
\* QueueSize + 1) until the consumer has taken an entry; meanwhile the
\* producer waits in put() and its record is not in the queue.
C1_BackPressure ==
    /\ Len(media_queue) <= QueueSize
    /\ pPc = "put" =>
          /\ media_details_list # <<>>
          /\ Len(RecordsOf(enqueued)) = Len(handed) + Len(RecordsOf(media_queue))

\* the producer waits in put() on a full queue
C1_ProducerSuspended ==
    /\ pPc = "put"
    /\ Len(media_queue) = QueueSize
    /\ cPc = "download"

\* C2: at most one None is ever put in the queue, nothing is put after it,
\* and once add_media_to_queue has finished exactly one None has been put,
\* as the last entry.
C2_SingleSentinelLast ==
    LET sentinels == {i \in DOMAIN enqueued : enqueued[i] = None}
    IN  /\ Cardinality(sentinels) <= 1
        /\ \A i \in sentinels : i = Len(enqueued)
        /\ pPc = "done" => Cardinality(sentinels) = 1

\* add_media_to_queue has finished after putting records and the sentinel
C2_FinishedAfterRecords ==
    /\ pPc = "done"
    /\ Len(enqueued) >= 3
    /\ enqueued[Len(enqueued)] = None

\* C4: the records handed to download_file are, in order, the records put
\* in the queue (a prefix of them while the run goes on, each once), and
\* when the consumer has ended on the sentinel they are all of them.
C4_Fifo ==
    LET records == RecordsOf(enqueued)
    IN  /\ Len(handed) <= Len(records)
        /\ \A i \in 1..Len(handed) : records[i] = {handed[i]}
        /\ cPc = "done" => Len(handed) = Len(records)

\* a completed run in which two different records were handed over
C4_TwoRecordsHanded ==
    /\ cPc = "done"
    /\ Len(handed) >= 2
    /\ handed[1] # handed[2]

\* C3: with a post source of finitely many pages, every download_file call
\* returning (none raises out of the consumer) and both tasks scheduled
\* fairly, the producer and the consumer both end, the queue is empty from
\* then on, and a consumer that has ended takes nothing more from the queue,
\* hands nothing more to download_file and puts nothing in the queue.
C3_BothTasksEnd ==
    /\ <>(cPc = "raised") \/ <>[](pPc = "done" /\ cPc = "done" /\ media_queue = <<>>)
    /\ [][cPc = "done" =>
            /\ cPc' = "done"
            /\ media_queue' = media_queue
            /\ handed' = handed]_vars

\* what does hold: the tasks end unless one of them raised
C3_BothTasksEndUnlessRaised ==
    \/ <>(cPc = "raised" \/ pPc = "raised")
    \/ <>[](pPc = "done" /\ cPc = "done" /\ media_queue = <<>>)

\* C5: no URL is put in the queue twice in one run.
C5_NoUrlEnqueuedTwice ==
    LET records == RecordsOf(enqueued)
    IN  \A i, j \in DOMAIN records :
            i < j => Attr(records[i]).url # Attr(records[j]).url

\* C6: media_urls grows and media_count is incremented only for a record
\* that download_file has written, i.e. whose body it streamed.
C6_RecordedOnlyOnSuccess ==
    [][(media_urls' # media_urls \/ media_count' # media_count) => dl_ok']_vars

\* C7: the producer's check of a record: a URL that is in media_urls then
\* is counted as a duplicate (dupes + 1) and not put; any other record
\* leaves dupes as it is and is put, at once or after waiting in put();
\* dupes changes in no other way.  So no record whose URL load_history
\* loaded is handed to download_file.
C7_DuplicateCheck ==
    [][/\ dupes' # dupes =>
            /\ pPc = "filter"
            /\ media_details_list # <<>>
            /\ Head(media_details_list).url \in media_urls
       /\ (/\ pPc = "filter"
           /\ media_details_list # <<>>
           /\ <<pPc, media_details_list, dupes>>' # <<pPc, media_details_list, dupes>>) =>
            IF Head(media_details_list).url \in media_urls
            THEN /\ dupes' = dupes + 1
                 /\ enqueued' = enqueued
                 /\ media_details_list' = Tail(media_details_list)
            ELSE /\ dupes' = dupes
                 /\ \/ enqueued' = Append(enqueued, {Head(media_details_list)})
                    \/ pPc' = "put" /\ enqueued' = enqueued
       /\ (pPc = "put" /\ pPc' # "put") =>
            /\ dupes' = dupes
            /\ enqueued' = Append(enqueued, {Head(media_details_list)})
       /\ \A i \in DOMAIN handed' : handed'[i].url \notin loaded']_vars

\* a run with a loaded history in which a duplicate was dropped and another
\* record was put and handed to download_file
C7_DroppedAndEnqueued ==
    /\ loaded # {}
    /\ dupes > 0
    /\ handed # <<>>

\* C8: download_file makes at most 6 turns of its loop for a record; once a
\* turn has streamed the body the call is over; and after a sixth failed
\* turn the call returns.
C8_AtMostSixAttempts ==
    /\ retry_count <= 6
    /\ dl_ok => cPc # "download"
    /\ (cPc = "download" /\ retry_count = 6) =>
          /\ ENABLED DownloadExhausted
          /\ ~ENABLED (AttemptOk \/ AttemptNotOk \/ AttemptFileNotFound \/ AttemptTimeout
                        \/ AttemptConnectorError \/ AttemptPayloadError \/ AttemptFatal)

\* download_file is back at its loop test after six failed turns
C8_SixFailedAttempts ==
    /\ cPc = "download"
    /\ retry_count = 6
    /\ ~dl_ok

\* the consumer is past a download_file call that returned after its turns
\* ran out
Exhausted ==
    /\ cPc \in {"get", "done"}
    /\ media_details # None
    /\ ~dl_ok

\* C9: after download_file ran out of attempts for a record, neither of the
\* record's two files exists.
C9_NoFileAfterExhaustion ==
    Exhausted =>
        /\ all_folder(Attr(media_details)) \notin DOMAIN files
        /\ artist_folder(Attr(media_details)) \notin DOMAIN files

\* C10: when download_file returns without having streamed the body, the
\* consumer is back at media_queue.get() with the queue as it was; and the
\* consumer ends only by taking None from the queue.
C10_ConsumerGoesOn ==
    [][/\ (cPc = "download" /\ cPc' \notin {"download", "raised"} /\ ~dl_ok') =>
            /\ cPc' = "get"
            /\ media_queue' = media_queue
       /\ (cPc # "done" /\ cPc' = "done") =>
            /\ cPc = "get"
            /\ media_queue # <<>>
            /\ Head(media_queue) = None]_vars

\* after an exhausted download of one record the consumer was handed the
\* next one
C10_NextAfterExhaustion ==
    /\ Len(handed) = 2
    /\ handed[1] # handed[2]
    /\ all_folder(handed[1]) \in DOMAIN files
    /\ files[all_folder(handed[1])] # Body(handed[1].url)

\* the four conditions download_file catches
Recoverable == {"FileNotFoundError", "TimeoutError", "ClientConnectorError",
                "ClientPayloadError"}

\* C11: a turn after the first is begun only after a turn that ended in one
\* of the four recoverable conditions; after a FileNotFoundError both the
\* __all__ directory and the author's directory exist; and a turn that ended
\* in any other exception has left download_file, which makes no further
\* turn.
C11_OnlyFourRetried ==
    /\ (dPc = "opened" /\ retry_count > 1) => outcome \in Recoverable
    /\ outcome = "FileNotFoundError" =>
          {"__all__", Attr(media_details).author} \subseteq dirs
    /\ outcome = "other" <=> dPc = "raised"

\* what does hold: the claim for the turns that end in an exception
C11_ExceptionsRetriedOrFatal ==
    /\ (dPc = "opened" /\ retry_count > 1) => outcome \in Recoverable \cup {"not ok"}
    /\ outcome = "FileNotFoundError" =>
          {"__all__", Attr(media_details).author} \subseteq dirs
    /\ outcome = "other" <=> dPc = "raised"

\* the first n chunks of the body of the record being downloaded
BodyPrefix(n) == SubSeq(Body(Attr(media_details).url), 1, n)

Malformed(media) ==
    /\ media.type \in {"video", "animated_gif"}
    /\ \A i \in DOMAIN media.variants : media.variants[i].content_type # "video/mp4"

\* C13: get_media_details raises whenever an entry of the posts it is given
\* (their own, their reposted or their quoted posts') is a video or an
\* animated loop without a video/mp4 variant, whatever entries come before
\* it in the call: no list is returned.
C13_MalformedEntrySignalled ==
    (/\ mPc \in {"details", "named"}
     /\ \E i \in DOMAIN mMedias : \E j \in DOMAIN mMedias[i] : Malformed(mMedias[i][j][2])) =>
        mDetails.raised

\* what does hold: it raises when no video or animated loop entry with an
\* mp4 variant comes before the malformed one in the call
C13_FirstVideoMalformedSignalled ==
    (/\ mPc \in {"details", "named"}
     /\ \E i \in DOMAIN mMedias : \E j \in DOMAIN mMedias[i] :
          /\ Malformed(mMedias[i][j][2])
          /\ \A k \in 1..i : \A l \in DOMAIN mMedias[k] :
                (k < i \/ l < j) => mMedias[k][l][2].type = "photo") =>
        mDetails.raised

\* the video/mp4 variants of an entry
Mp4Variants(media) ==
    {media.variants[i] : i \in {j \in DOMAIN media.variants :
                                   media.variants[j].content_type = "video/mp4"}}

\* C14: in a list get_media_details returns, the record of a video or
\* animated loop entry that has a video/mp4 variant carries the URL of a
\* video/mp4 variant of that entry whose bitrate no other video/mp4 variant
\* of it exceeds, whatever the other variants' bitrates; for the video with
\* mp4 variants at 832000 and 2176000 and an m3u8 variant that is the URL of
\* the 2176000 variant.
C14_MaxBitrateMp4 ==
    (mPc \in {"details", "named"} /\ ~mDetails.raised) =>
        LET entries == Flat(mMedias)
        IN  /\ Len(mDetails.list) = Len(entries)
            /\ \A p \in DOMAIN entries :
                 LET media == entries[p][2]
                 IN  (media.type # "photo" /\ Mp4Variants(media) # {}) =>
                        \E v \in Mp4Variants(media) :
                            /\ mDetails.list[p].url = v.url
                            /\ \A w \in Mp4Variants(media) : w.bitrate <= v.bitrate
            /\ mTweets = <<3>> =>
                 mDetails.list[1].url = Url("video.twimg.com", "hi.mp4")

\* a list returned for the video with three variants and the animated loop
\* whose other variant has the greater bitrate
C14_VideoRecordsBuilt ==
    /\ mPc = "details"
    /\ ~mDetails.raised
    /\ mTweets = <<3, 7>>
    /\ Len(mDetails.list) = 2

\* the history files of the client's source kind in a folder
OfSource(dir) == {name \in DOMAIN dir : name[1] = tweet_source}

\* the client was just made: load_history was the last call
JustLoaded == hOp \in {"load", "save, load"}

\* C15: when base_folder holds history files of the client's source kind,
\* load_history leaves in media_urls (empty before) exactly the URLs of the
\* one with the greatest timestamp in its name, one URL per line, whatever
\* the order the files are listed in.
C15_LoadsMostRecent ==
    (JustLoaded /\ OfSource(folder) # {}) =>
        LET latest == CHOOSE name \in OfSource(folder) :
                          \A other \in OfSource(folder) : other[4] <= name[4]
        IN  media_urls = ReadUrls({}, folder[latest])

\* what does hold: the URLs of one of the history files are loaded
C15_LoadsSomeFile ==
    (JustLoaded /\ OfSource(folder) # {}) =>
        \E name \in OfSource(folder) : media_urls = ReadUrls({}, folder[name])

\* C16: when base_folder holds no history file of the client's source kind,
\* load_history returns (nothing is raised) and media_urls, empty before
\* the call, is empty after it.
C16_NoHistoryFile ==
    OfSource(folder) = {} =>
        /\ ENABLED Construct
        /\ JustLoaded => (media_urls = {} /\ loaded = {})

\* a client made on a folder that holds only the other source kind's file
C16_LoadedNothing ==
    /\ hOp = "load"
    /\ OfSource(folder) = {}
    /\ folder # <<>>
    /\ media_urls = {}

Attachments(tweet) ==
    IF HasAttr(Posts[tweet].extended_entities)
    THEN Attr(Posts[tweet].extended_entities)
    ELSE <<>>

\* entries first..first + N - 1 of a get_media result are the N attachments
\* of the post, in attachment order, with the indexes 0..N-1
OwnBlock(result, first, tweet) ==
    /\ first + Len(Attachments(tweet)) - 1 <= Len(result)
    /\ \A k \in 1..Len(Attachments(tweet)) :
          result[first + k - 1] = <<tweet, Attachments(tweet)[k], k - 1>>

\* the post links to no post
Leaf(tweet) ==
    /\ ~HasAttr(Posts[tweet].retweeted_status)
    /\ ~HasAttr(Posts[tweet].quoted_status)

Stamp(info) ==
    <<info.date.y, "-", info.date.mo, "-", info.date.d, "-",
      info.date.h, info.date.mi, info.date.s>>

Delayed == {"TimeoutError", "ClientConnectorError", "ClientPayloadError"}

\* C21: a turn that follows a turn ended by a timeout, a connection failure
\* or a payload error begins later than that turn was left: time has passed
\* between the two.
C21_DelayBeforeNextTurn ==
    (dPc = "opened" /\ outcome \in Delayed) => now > left_at

\* C22: a turn that has opened its two files finds both empty; while the
\* turn runs each file holds chunks read in this turn only, never more of
\* them than were read; and after a call that streamed the body each file
\* holds as many chunks as the body has.
C22_TurnStartsTruncated ==
    LET base   == files[all_folder(Attr(media_details))]
        artist == files[artist_folder(Attr(media_details))]
    IN  /\ dPc = "opened" => (base = <<>> /\ artist = <<>>)
        /\ dPc \in {"stream", "write_base", "write_artist"} =>
              /\ Len(base) <= received
              /\ Len(artist) <= received
              /\ base = BodyPrefix(Len(base))
              /\ artist = BodyPrefix(Len(artist))
        /\ (dPc = "returned" /\ dl_ok) =>
              /\ Len(base) = BodyChunks
              /\ Len(artist) = BodyChunks

\* a second call for a record whose first call streamed the body has opened
\* the two files, which held that body
C22_OpenedOverEarlierBody ==
    /\ dPc = "opened"
    /\ Len(calls) = 2
    /\ Len(returns) = 1
    /\ calls[1] = calls[2]
    /\ returns[1].ok
    /\ returns[1].files[all_folder(calls[2])] = Body(calls[2].url)
    /\ returns[1].files[artist_folder(calls[2])] = Body(calls[2].url)

\* the steps of a turn in which its two files are open
InTurn == {"opened", "stream", "write_base", "write_artist"}

\* C23: no file object is open when download_file is at its loop test, has
\* returned or has raised; the file objects that are open while a turn runs
\* are the two that this turn of this call opened, one for each path.
C23_HandlesClosed ==
    /\ dPc \notin InTurn => handles = {}
    /\ dPc \in InTurn =>
          handles = {Handle(all_folder(Attr(media_details)), retry_count),
                     Handle(artist_folder(Attr(media_details)), retry_count)}
    /\ \A h \in handles : h.call = Len(calls) /\ h.turn = retry_count

\* a call that streamed no body has ended with its files empty, and a second
\* call has been left in its second turn by an exception that is not caught
C23_ExhaustedThenRaised ==
    /\ dPc = "raised"
    /\ retry_count = 2
    /\ outcome = "other"
    /\ Len(returns) = 2
    /\ ~returns[1].ok
    /\ returns[1].files[all_folder(calls[1])] = <<>>
    /\ handles = {}

\* C24: of two calls for the same record that both streamed the body of the
\* response, the later one leaves at the __all__ path and at the author's
\* path files equal, chunk for chunk, to those the earlier one left.
C24_SecondCallSameFiles ==
    \A i \in DOMAIN returns : \A j \in DOMAIN returns :
        (i < j /\ calls[i] = calls[j] /\ returns[i].ok /\ returns[j].ok) =>
            /\ returns[j].files[all_folder(calls[j])] = returns[i].files[all_folder(calls[i])]
            /\ returns[j].files[artist_folder(calls[j])] =
                  returns[i].files[artist_folder(calls[i])]

\* two calls for one record have returned, each with the body streamed, the
\* second after a turn that was broken off
C24_DownloadedTwice ==
    /\ Len(returns) = 2
    /\ calls[1] = calls[2]
    /\ returns[1].ok
    /\ returns[2].ok
    /\ dPc = "returned"
    /\ retry_count > 1
    /\ returns[1].files[all_folder(calls[1])] = Body(calls[1].url)

\* C25: every file a save_history call wrote is still there with the text
\* written: in the backups folder under its name, or, as the file of the
\* last save, in base_folder.
C25_NoHistoryFileLost ==
    \A w \in hWritten :
        \/ w.name \in DOMAIN backups /\ backups[w.name] = w.text
        \/ w.name \in DOMAIN folder /\ folder[w.name] = w.text

\* the posts a post links to: its reposted post, then its quoted post
Links(tweet) ==
    (IF HasAttr(Posts[tweet].retweeted_status)
     THEN <<Attr(Posts[tweet].retweeted_status)>> ELSE <<>>)
    \o (IF HasAttr(Posts[tweet].quoted_status)
        THEN <<Attr(Posts[tweet].quoted_status)>> ELSE <<>>)

\* the number of paths of exactly n links that lead from one post to another
RECURSIVE PathsTo(_, _, _)
PathsTo(from, to, n) ==
    IF n = 0
    THEN IF from = to THEN 1 ELSE 0
    ELSE LET next == Links(from)
             through(k) == IF k <= Len(next) THEN PathsTo(next[k], to, n - 1) ELSE 0
         IN  through(1) + through(2)

\* the number of those of at most n links
RECURSIVE PathsWithin(_, _, _)
PathsWithin(from, to, n) ==
    PathsTo(from, to, n) + (IF n = 0 THEN 0 ELSE PathsWithin(from, to, n - 1))

\* how many entries of a get_media result are the first attachment of a post
Occurrences(result, tweet) ==
    Cardinality({p \in DOMAIN result : result[p][1] = tweet /\ result[p][3] = 0})

\* C26: get_media called on a post visits it at depth 1 and visits no post
\* at a depth above max_depth = 10, whatever the links, cyclic ones
\* included; its result is the attachments of the posts visited, visit by
\* visit; and a post contributes its attachments once for every path of
\* fewer than max_depth links that leads to it.
C26_DepthBoundedOncePerPath ==
    mPc # "input" =>
        \A i \in DOMAIN mMedias :
            LET visits == Visited(mTweets[i], 1, DefaultMaxDepth)
            IN  /\ visits[1] = [tweet |-> mTweets[i], depth |-> 1]
                /\ \A k \in DOMAIN visits : visits[k].depth \in 1..DefaultMaxDepth
                /\ mMedias[i] = Flat([k \in DOMAIN visits |-> OwnMedia(visits[k].tweet)])
                /\ \A tweet \in TweetIds :
                      Attachments(tweet) # <<>> =>
                          Occurrences(mMedias[i], tweet) =
                              PathsWithin(mTweets[i], tweet, DefaultMaxDepth - 1)

\* get_media was called on a post of a cycle, which it visited five times,
\* and on a post that reaches post 1 along two paths
C26_CycleAndTwoPaths ==
    /\ mPc = "media"
    /\ mTweets = <<12, 9>>
    /\ Len(mMedias[1]) = 5
    /\ Occurrences(mMedias[2], 1) = 2
    /\ Len(mMedias[2]) = 4

\* what the post a link leads to, and the posts behind it, contribute; <<>>
\* when the link is missing
Branch(link) ==
    IF HasAttr(link)
    THEN LET visits == Visited(Attr(link), 2, DefaultMaxDepth)
         IN  Flat([k \in DOMAIN visits |-> OwnMedia(visits[k].tweet)])
    ELSE <<>>

\* C27: no entry of a get_media result belongs to a post without an
\* attachment list; the result is what the post itself, its reposted post
\* and its quoted post contribute, in this order, a missing one of the
\* three contributing nothing while the others contribute as they are; and
\* get_media_details on posts that give no media returns the empty list
\* and does not raise.
C27_MissingPartsContributeNothing ==
    mPc # "input" =>
        /\ \A i \in DOMAIN mMedias :
              /\ \A p \in DOMAIN mMedias[i] :
                    HasAttr(Posts[mMedias[i][p][1]].extended_entities)
              /\ mMedias[i] = OwnMedia(mTweets[i])
                                \o Branch(Posts[mTweets[i]].retweeted_status)
                                \o Branch(Posts[mTweets[i]].quoted_status)
        /\ (mPc # "media" /\ \A i \in DOMAIN mMedias : mMedias[i] = <<>>) =>
              mDetails = [list |-> <<>>, raised |-> FALSE]

\* get_media_details was called on a post without attachments and without a
\* reposted post, whose quoted post has a photo, and on a post that has none
\* of the three
C27_OnlyQuotePresent ==
    /\ mPc = "details"
    /\ mTweets = <<10, 8>>
    /\ mMedias[1] = <<<<1, Attachments(1)[1], 0>>>>
    /\ mMedias[2] = <<>>
    /\ ~mDetails.raised
    /\ Len(mDetails.list) = 1

\* C28: the producer asks the source for a page only at the head of its
\* loop, with tweet_count below max_tweets; it goes on to put the sentinel
\* only from there, the source being exhausted, or on counting a page that
\* brings tweet_count to max_tweets or above; None is put only then; and a
\* page is counted, and the stop test made, only when every record that
\* get_media_details gave for it has been through the check.
C28_PageOnlyWhileBelowMax ==
    [][/\ pPc = "fetch" => tweet_count < MaxTweets
       /\ pages' # pages =>
             /\ pPc = "fetch"
             /\ tweet_count < MaxTweets
             /\ tweet_count' = tweet_count
       /\ (pPc = "fetch" /\ pPc' = "filter") =>
             media_details_list' = get_media_details(tweets_list').list
       /\ (pPc # "sentinel" /\ pPc' = "sentinel") =>
             \/ pPc = "fetch" /\ pages' = pages /\ tweet_count' = tweet_count
             \/ pPc = "filter" /\ tweet_count' >= MaxTweets
       /\ (Len(enqueued') > Len(enqueued) /\ enqueued'[Len(enqueued')] = None) =>
             pPc = "sentinel"
       /\ tweet_count' # tweet_count =>
             /\ pPc = "filter"
             /\ media_details_list = <<>>
             /\ tweet_count' = tweet_count + Len(tweets_list)
             /\ pPc' = IF tweet_count' >= MaxTweets THEN "sentinel" ELSE "fetch"]_vars

\* the sentinel was put after max_tweets posts were counted, with a record
\* dropped as a duplicate and another one put before it
C28_StoppedAtMax ==
    /\ pPc = "done"
    /\ tweet_count >= MaxTweets
    /\ dupes > 0
    /\ Len(enqueued) >= 2
    /\ enqueued[Len(enqueued)] = None

\* C29: media_urls changes only in a step of the consumer, the one in which
\* download_file has returned, and by the URL of the record downloaded;
\* media_count changes only there, by one; dupes and tweet_count change only
\* in steps of the producer; a step that changes a variable of one task
\* leaves those of the other task as they are.
C29_OneWriterEach ==
    [][/\ media_urls' # media_urls =>
             /\ cPc = "download"
             /\ cPc' = "get"
             /\ media_urls' = media_urls \cup {Attr(media_details).url}
             /\ media_count' = media_count + 1
             /\ UNCHANGED producerVars
       /\ media_count' # media_count =>
             /\ cPc = "download"
             /\ cPc' = "get"
             /\ media_count' = media_count + 1
             /\ UNCHANGED producerVars
       /\ (dupes' # dupes \/ tweet_count' # tweet_count) =>
             /\ pPc = "filter"
             /\ UNCHANGED consumerVars
             /\ UNCHANGED media_urls]_vars

\* the producer has counted a duplicate and a page, and the consumer has
\* added a URL to media_urls and counted a download
C29_BothTasksWrote ==
    /\ dupes > 0
    /\ tweet_count > 0
    /\ media_count > 0
    /\ media_urls # loaded

\* C30: once the producer has stopped, by finishing or by an error raised
\* while a page's media were extracted, the sentinel is in the queue or gets
\* there, and the consumer, unless an exception of download_file ends it,
\* takes it and ends: it does not wait on the empty queue for ever.
C30_ConsumerEndsOnceProducerStopped ==
    (pPc \in {"done", "raised"}) ~>
        \/ cPc = "raised"
        \/ /\ cPc = "done"
           /\ enqueued # <<>>
           /\ enqueued[Len(enqueued)] = None

\* the records in the consumer's hands: the one download_file is working on
InFlight == IF cPc = "download" THEN 1 ELSE 0

\* the record download_file was working on when an exception that is not
\* caught ended the consumer
Lost == IF cPc = "raised" THEN 1 ELSE 0

\* C31, as claimed: in every state the records extracted so far are as many
\* as the duplicates counted plus the records put in the queue, and the
\* records put are as many as media_count plus the records in the queue
\* plus the at most one record in the consumer's hands.
C31_CountersAddUp ==
    /\ extracted = dupes + Len(RecordsOf(enqueued))
    /\ Len(RecordsOf(enqueued)) = media_count + Len(RecordsOf(media_queue)) + InFlight
    /\ InFlight <= 1

\* C31, as it holds: the records extracted so far are the duplicates
\* counted, the records put in the queue and the records of the page in
\* work that are yet to be checked (the one waiting in put() among them);
\* the records put are those counted in media_count, those in the queue, the
\* at most one in the consumer's hands, and the one lost when an exception
\* of download_file ended the consumer.
C31_CountersAddUpWithPending ==
    /\ extracted = dupes + Len(RecordsOf(enqueued)) + Len(media_details_list)
    /\ Len(RecordsOf(enqueued)) =
          media_count + Len(RecordsOf(media_queue)) + InFlight + Lost
    /\ InFlight <= 1
    /\ Lost <= 1

\* three records were extracted: one is downloaded, one is in the hands of
\* download_file, and one of the page in work waits to be checked
C31_EveryTermCounts ==
    /\ extracted = 3
    /\ media_count = 1
    /\ cPc = "download"
    /\ Len(media_details_list) = 1
    /\ Len(RecordsOf(enqueued)) = 2

\* the URLs of the records whose download_file call has returned
Downloaded ==
    {handed[i].url : i \in {j \in DOMAIN handed :
                                j < Len(handed) \/ cPc \notin {"download", "raised"}}}

\* C32: from the construction of the client on, media_urls holds every URL
\* load_history loaded, and holds those and the URLs of the records whose
\* download_file call returned, and no other; and the file save_history
\* writes when the run is over reads back as exactly these URLs.
C32_HistoryOnlyGrows ==
    /\ loaded \subseteq media_urls
    /\ media_urls = loaded \cup Downloaded
    /\ hOp = "save" =>
          LET new_filename == HistoryName(tweet_source, clock)
          IN  /\ new_filename \in DOMAIN folder
              /\ ReadUrls({}, folder[new_filename]) = loaded \cup Downloaded

\* a run that loaded a history, dropped a duplicate of it and downloaded a
\* record with a URL not in it has been saved
C32_SavedLoadedAndAdded ==
    /\ hOp = "save"
    /\ loaded # {}
    /\ Downloaded \ loaded # {}
    /\ dupes > 0
    /\ media_urls = loaded \cup Downloaded

=============================================================================
